---- MODULE Spec2Model ----
(***************************************************************************)
(* Verification model of the concurrent bounded queue (queue.c), the chunk *)
(* size computation (http.c, get_num_tasks) and the download protocol      *)
(* that the specification builds on top of them.                           *)
(***************************************************************************)
EXTENDS Integers, Naturals, Sequences, FiniteSets, TLC

\* ------------------------------------------------------------------ bounds
MaxSize      == 2   \* queue capacities explored: 1..MaxSize
NumProducers == 2   \* producer threads of the queue harness
NumConsumers == 2   \* consumer threads of the queue harness
MaxPuts      == 3   \* queue_put calls made by the producers altogether
MaxGets      == 3   \* queue_get calls made by the consumers altogether
LiveProducers == 2  \* producer threads in the runs checked for progress
LiveConsumers == 1  \* consumer threads in the runs checked for progress
MaxContentLength == 12  \* content lengths planned: 0..MaxContentLength
MaxThreads       == 6   \* worker counts planned: 0..MaxThreads
DlMaxLength  == 3   \* content lengths downloaded: 1..DlMaxLength
DlMaxWorkers == 2   \* worker counts of a download: 1..DlMaxWorkers
NegSizes     == 1   \* negative sizes passed to queue_alloc: -NegSizes..-1

\* ------------------------------------------------------------- state
VARIABLES
  size,         \* Queue.size
  elements,     \* Queue.elements : 0..size-1 -> item
  read_index,   \* Queue.read_index
  write_index,  \* Queue.write_index
  mutex,        \* Queue.mutex      (semaphore value)
  sem_read,     \* Queue.sem_read   (semaphore value)
  sem_write,    \* Queue.sem_write  (semaphore value)
  pc,           \* position of every thread
  item,         \* per thread: argument of queue_put / local `item` of queue_get
  index,        \* per thread: the index value it has loaded from the Queue
  written,      \* history: items in the order line 98 stored them
  taken,        \* history: items in the order line 121 loaded them
  wslot,        \* history: per store of line 98, the slot it went to
  fresh,        \* history: slots stored into (line 98) and not loaded (line 121) since
  returned,     \* history: per item, how many queue_get calls returned it
  nput,         \* queue_put calls started
  nget,         \* queue_get calls started
  putsDone,     \* queue_put calls that have returned
  getsDone,     \* queue_get calls that have returned
  content_length, \* get_num_tasks: int content_length (from the HEAD response)
  threads,        \* get_num_tasks: parameter `threads` (the worker count)
  max_chunk_size, \* the global max_chunk_size
  num_tasks,      \* the value get_num_tasks returned
  tasks,          \* the plan: sequence of Tasks
  ppc,            \* position of the planning code
  dl_state,       \* Planning, Dispatching, Waiting, Assembled or Failed
  buffer,         \* the assembly buffer: offset -> byte
  nwrites,        \* history: per offset, how many times it was written
  delivered,      \* history: per Task, how many times a worker received it
  fetched,        \* per worker: outcome of the fetch of its current Task
  completed,      \* the shared completion counter
  failed,         \* the shared failure record
  results,        \* per Task, the ChunkResults reported for it
  enq,            \* items the orchestrator has handed to queue_put
  joined,         \* workers the orchestrator has joined
  result          \* what the download returned to its caller

qvars == <<size, elements, read_index, write_index, mutex, sem_read, sem_write>>
tvars == <<pc, item, index>>
hvars == <<written, taken, wslot, fresh, returned, nput, nget, putsDone, getsDone>>
pvars == <<content_length, threads, max_chunk_size, num_tasks, tasks, ppc>>
dvars == <<dl_state, buffer, nwrites, delivered, fetched, completed,
           failed, results, enq, joined, result>>
evars == <<pvars, dvars>>
vars  == <<qvars, tvars, hvars, evars>>

\* A slot of the malloc'ed array that no queue_put has stored into yet.
Uninit == -1

\* Threads np+1..np+nc call queue_get, threads 1..np call queue_put.
HarnessThreads(np, nc) ==
  [t \in 1..(np + nc) |-> IF t <= np THEN "producer" ELSE "consumer"]

\* The item handed to the k-th queue_put call: a distinct pointer per call.
ItemOf(k) == k

\* Every value a slot or a local can hold in the queue harness.
Items == {Uninit} \cup {ItemOf(k) : k \in 1..MaxPuts}

\* State of the download before (or without) a download.
NoDownload ==
  /\ dl_state = "Planning"
  /\ buffer = << >>
  /\ nwrites = << >>
  /\ delivered = << >>
  /\ fetched = << >>
  /\ completed = 0
  /\ failed = FALSE
  /\ results = << >>
  /\ enq = 0
  /\ joined = 0
  /\ result = "none"

\* ------------------------------------------------------------ http.c
\* State of the planner before (or without) a call of get_num_tasks: the
\* global max_chunk_size is zero-initialised.
NoPlan ==
  /\ content_length = 0
  /\ threads = 0
  /\ max_chunk_size = 0
  /\ num_tasks = 0
  /\ tasks = << >>
  /\ ppc = "none"
  /\ NoDownload

\* Variant: the division without the round-up.
ChunkSize_floor(len, n) == len \div n

\* http.c line 276: (content_length + threads - 1) / threads, C int division
\* of non-negative operands.
ChunkSize(len, n) == (len + n - 1) \div n

\* http.c line 279: return threads.
NumTasks(len, n) == n

\* get_num_tasks, lines 270-279, once the HEAD response gave content_length.
get_num_tasks ==
  /\ ppc = "start"
  /\ threads # 0
  /\ max_chunk_size' = ChunkSize(content_length, threads)
  /\ num_tasks' = NumTasks(content_length, threads)
  /\ ppc' = "planned"
  /\ UNCHANGED <<content_length, threads, tasks, qvars, tvars, hvars, dvars>>

\* get_num_tasks with threads = 0: line 276 divides by zero, which is
\* undefined; a build either traps (SIGFPE) or yields a zero quotient.
get_num_tasks_div0 ==
  /\ ppc = "start"
  /\ threads = 0
  /\ \/ /\ ppc' = "crashed"
        /\ UNCHANGED <<max_chunk_size, num_tasks>>
     \/ /\ ppc' = "planned"
        /\ max_chunk_size' = 0
        /\ num_tasks' = NumTasks(content_length, threads)
  /\ UNCHANGED <<content_length, threads, tasks, qvars, tvars, hvars, dvars>>

\* get_num_tasks, lines 226-266: the url has no '/', the connect, the write
\* or the read fails, or the response has no Content-Length field: exit(1).
get_num_tasks_exit ==
  /\ ppc = "start"
  /\ ppc' = "exited"
  /\ UNCHANGED <<content_length, threads, max_chunk_size, num_tasks, tasks,
                 qvars, tvars, hvars, dvars>>

Min(a, b) == IF a <= b THEN a ELSE b
Max(a, b) == IF a >= b THEN a ELSE b

\* The Task with sequence index k of a plan with `chunk` bytes per task:
\* it starts at k * chunk and holds what is left of the resource there, at
\* most chunk bytes (nothing when it starts at or past the end).
TaskAt(k, len, chunk) ==
  [sequence_index |-> k,
   offset |-> k * chunk,
   length |-> Max(0, Min(chunk, len - k * chunk))]

\* The ordered Tasks built from what get_num_tasks and get_max_chunk_size
\* returned.
PlanTasks(len, n, chunk) == [i \in 1..n |-> TaskAt(i - 1, len, chunk)]

\* The caller builds the Tasks from the task count and the chunk size.
BuildPlan ==
  /\ ppc = "planned"
  /\ tasks' = PlanTasks(content_length, num_tasks, max_chunk_size)
  /\ ppc' = "done"
  /\ UNCHANGED <<content_length, threads, max_chunk_size, num_tasks, qvars, tvars, hvars, dvars>>

\* ----------------------------------------------------------- queue.c
\* sem_wait can proceed only on a positive value, which it decrements. (It
\* can fail only when a signal handler interrupts it; the program installs
\* none, and the code does not test its return value.)
SemCanWait(s) == s > 0

SemWait(s) == s - 1
SemPost(s) == s + 1

\* Variant: the index is advanced without wrapping around.
NextIndex_nowrap(i, n) == i + 1

\* (index + 1) % queue->size
NextIndex(i, n) == (i + 1) % n

\* queue_alloc(size): the queue right after construction.
queue_alloc(n) ==
  [size |-> n,
   elements |-> [i \in 0..(n - 1) |-> Uninit],
   read_index |-> 0,
   write_index |-> 0,
   mutex |-> 1,
   sem_read |-> 0,
   sem_write |-> n]

\* The queue variables hold the Queue q.
QueueIs(q) ==
  /\ size = q.size
  /\ elements = q.elements
  /\ read_index = q.read_index
  /\ write_index = q.write_index
  /\ mutex = q.mutex
  /\ sem_read = q.sem_read
  /\ sem_write = q.sem_write

\* No queue has been allocated yet.
NoQueue == [size |-> 0, elements |-> << >>, read_index |-> 0, write_index |-> 0,
            mutex |-> 0, sem_read |-> 0, sem_write |-> 0]

\* Variant: the put does not wait for a write-slot permit.
put_wait_write_noblock(t) ==
  /\ pc[t] = "put_wait_write"
  /\ pc' = [pc EXCEPT ![t] = "put_wait_mutex"]
  /\ UNCHANGED <<qvars, item, index, hvars, evars>>

\* queue_put, line 95: sem_wait(&queue->sem_write)
put_wait_write(t) ==
  /\ pc[t] = "put_wait_write"
  /\ SemCanWait(sem_write)
  /\ sem_write' = SemWait(sem_write)
  /\ pc' = [pc EXCEPT ![t] = "put_wait_mutex"]
  /\ UNCHANGED <<size, elements, read_index, write_index, mutex, sem_read, item, index, hvars, evars>>

\* queue_put, line 96: sem_wait(&queue->mutex)
put_wait_mutex(t) ==
  /\ pc[t] = "put_wait_mutex"
  /\ SemCanWait(mutex)
  /\ mutex' = SemWait(mutex)
  /\ pc' = [pc EXCEPT ![t] = "put_index"]
  /\ UNCHANGED <<size, elements, read_index, write_index, sem_read, sem_write, item, index, hvars, evars>>

\* queue_put, line 98, first access: the load of queue->write_index. Each
\* access of the shared fields in lines 98-99 is a step of its own; the
\* mutex is what keeps other threads from running between them.
put_index(t) ==
  /\ pc[t] = "put_index"
  /\ index' = [index EXCEPT ![t] = write_index]
  /\ pc' = [pc EXCEPT ![t] = "put_store"]
  /\ UNCHANGED <<qvars, item, hvars, evars>>

\* queue_put, line 98: queue->elements[queue->write_index] = item, the store
\* into the slot of the index that was loaded.
put_store(t) ==
  /\ pc[t] = "put_store"
  /\ elements' = [elements EXCEPT ![index[t]] = item[t]]
  /\ written' = Append(written, item[t])
  /\ wslot' = Append(wslot, index[t])
  /\ fresh' = fresh \cup {index[t]}
  /\ pc' = [pc EXCEPT ![t] = "put_reload"]
  /\ UNCHANGED <<size, read_index, write_index, mutex, sem_read, sem_write, item, index,
                 taken, returned, nput, nget, putsDone, getsDone, evars>>

\* queue_put, line 99, the read of queue->write_index: an unoptimised build
\* loads the field again, an optimised build keeps the value it loaded for
\* line 98 in its register.
put_reload(t) ==
  /\ pc[t] = "put_reload"
  /\ \E i \in {index[t], write_index} : index' = [index EXCEPT ![t] = i]
  /\ pc' = [pc EXCEPT ![t] = "put_advance"]
  /\ UNCHANGED <<qvars, item, hvars, evars>>

\* Variant: the put leaves write_index where it was.
put_advance_stuck(t) ==
  /\ pc[t] = "put_advance"
  /\ index' = [index EXCEPT ![t] = 0]
  /\ pc' = [pc EXCEPT ![t] = "put_post_mutex"]
  /\ UNCHANGED <<qvars, item, hvars, evars>>

\* queue_put, line 99: write_index = (write_index + 1) % size, the store of
\* the successor of the value that was read.
put_advance(t) ==
  /\ pc[t] = "put_advance"
  /\ write_index' = NextIndex(index[t], size)
  /\ index' = [index EXCEPT ![t] = 0]
  /\ pc' = [pc EXCEPT ![t] = "put_post_mutex"]
  /\ UNCHANGED <<size, elements, read_index, mutex, sem_read, sem_write, item, hvars, evars>>

\* Variant: the put returns without releasing the mutex.
put_post_mutex_forget(t) ==
  /\ pc[t] = "put_post_mutex"
  /\ pc' = [pc EXCEPT ![t] = "put_post_read"]
  /\ UNCHANGED <<qvars, item, index, hvars, evars>>

\* queue_put, line 101: sem_post(&queue->mutex)
put_post_mutex(t) ==
  /\ pc[t] = "put_post_mutex"
  /\ mutex' = SemPost(mutex)
  /\ pc' = [pc EXCEPT ![t] = "put_post_read"]
  /\ UNCHANGED <<size, elements, read_index, write_index, sem_read, sem_write, item, index, hvars, evars>>

\* queue_put, line 102-103: sem_post(&queue->sem_read); return
put_post_read(t) ==
  /\ pc[t] = "put_post_read"
  /\ sem_read' = SemPost(sem_read)
  /\ pc' = [pc EXCEPT ![t] = "put_ret"]
  /\ item' = [item EXCEPT ![t] = Uninit]
  /\ putsDone' = putsDone + 1
  /\ UNCHANGED <<index, size, elements, read_index, write_index, mutex, sem_write,
                 written, wslot, fresh, taken, returned, nput, nget, getsDone, evars>>

\* queue_get, line 118: sem_wait(&queue->sem_read)
get_wait_read(t) ==
  /\ pc[t] = "get_wait_read"
  /\ SemCanWait(sem_read)
  /\ sem_read' = SemWait(sem_read)
  /\ pc' = [pc EXCEPT ![t] = "get_wait_mutex"]
  /\ UNCHANGED <<size, elements, read_index, write_index, mutex, sem_write, item, index, hvars, evars>>

\* Variant: the get enters the critical section without taking the mutex.
get_wait_mutex_nolock(t) ==
  /\ pc[t] = "get_wait_mutex"
  /\ pc' = [pc EXCEPT ![t] = "get_index"]
  /\ UNCHANGED <<qvars, item, index, hvars, evars>>

\* queue_get, line 119: sem_wait(&queue->mutex)
get_wait_mutex(t) ==
  /\ pc[t] = "get_wait_mutex"
  /\ SemCanWait(mutex)
  /\ mutex' = SemWait(mutex)
  /\ pc' = [pc EXCEPT ![t] = "get_index"]
  /\ UNCHANGED <<size, elements, read_index, write_index, sem_read, sem_write, item, index, hvars, evars>>

\* queue_get, line 121, first access: the load of queue->read_index.
get_index(t) ==
  /\ pc[t] = "get_index"
  /\ index' = [index EXCEPT ![t] = read_index]
  /\ pc' = [pc EXCEPT ![t] = "get_load"]
  /\ UNCHANGED <<qvars, item, hvars, evars>>

\* queue_get, line 121: void* item = queue->elements[queue->read_index], the
\* load from the slot of the index that was loaded.
get_load(t) ==
  /\ pc[t] = "get_load"
  /\ item' = [item EXCEPT ![t] = elements[index[t]]]
  /\ taken' = Append(taken, elements[index[t]])
  /\ fresh' = fresh \ {index[t]}
  /\ pc' = [pc EXCEPT ![t] = "get_reload"]
  /\ UNCHANGED <<index, qvars, written, wslot, returned, nput, nget, putsDone, getsDone, evars>>

\* queue_get, line 122, the read of queue->read_index: loaded again by an
\* unoptimised build, kept from line 121 by an optimised one.
get_reload(t) ==
  /\ pc[t] = "get_reload"
  /\ \E i \in {index[t], read_index} : index' = [index EXCEPT ![t] = i]
  /\ pc' = [pc EXCEPT ![t] = "get_advance"]
  /\ UNCHANGED <<qvars, item, hvars, evars>>

\* Variant: the get leaves read_index where it was.
get_advance_stuck(t) ==
  /\ pc[t] = "get_advance"
  /\ index' = [index EXCEPT ![t] = 0]
  /\ pc' = [pc EXCEPT ![t] = "get_post_mutex"]
  /\ UNCHANGED <<qvars, item, hvars, evars>>

\* queue_get, line 122: read_index = (read_index + 1) % size, the store of
\* the successor of the value that was read.
get_advance(t) ==
  /\ pc[t] = "get_advance"
  /\ read_index' = NextIndex(index[t], size)
  /\ index' = [index EXCEPT ![t] = 0]
  /\ pc' = [pc EXCEPT ![t] = "get_post_mutex"]
  /\ UNCHANGED <<size, elements, write_index, mutex, sem_read, sem_write, item, hvars, evars>>

\* queue_get, line 124: sem_post(&queue->mutex)
get_post_mutex(t) ==
  /\ pc[t] = "get_post_mutex"
  /\ mutex' = SemPost(mutex)
  /\ pc' = [pc EXCEPT ![t] = "get_post_write"]
  /\ UNCHANGED <<size, elements, read_index, write_index, sem_read, sem_write, item, index, hvars, evars>>

\* Variant: the get returns without releasing the write slot.
get_post_write_nopost(t) ==
  /\ pc[t] = "get_post_write"
  /\ returned' = [returned EXCEPT ![item[t]] = @ + 1]
  /\ getsDone' = getsDone + 1
  /\ pc' = [pc EXCEPT ![t] = "get_ret"]
  /\ UNCHANGED <<qvars, item, index, written, wslot, fresh, taken, nput, nget, putsDone, evars>>

\* Variant: the get posts sem_read instead of sem_write.
get_post_write_wrongsem(t) ==
  /\ pc[t] = "get_post_write"
  /\ sem_read' = SemPost(sem_read)
  /\ returned' = [returned EXCEPT ![item[t]] = @ + 1]
  /\ getsDone' = getsDone + 1
  /\ pc' = [pc EXCEPT ![t] = "get_ret"]
  /\ UNCHANGED <<size, elements, read_index, write_index, mutex, sem_write, item, index,
                 written, wslot, fresh, taken, nput, nget, putsDone, evars>>

\* queue_get, line 125-127: sem_post(&queue->sem_write); return item
get_post_write(t) ==
  /\ pc[t] = "get_post_write"
  /\ sem_write' = SemPost(sem_write)
  /\ returned' = [returned EXCEPT ![item[t]] = @ + 1]
  /\ getsDone' = getsDone + 1
  /\ pc' = [pc EXCEPT ![t] = "get_ret"]
  /\ UNCHANGED <<size, elements, read_index, write_index, mutex, sem_read, item, index,
                 written, wslot, fresh, taken, nput, nget, putsDone, evars>>

\* One step of a thread inside queue_put or queue_get.
QueueStep(t) ==
  \/ put_wait_write(t)
  \/ put_wait_mutex(t)
  \/ put_index(t)
  \/ put_store(t)
  \/ put_reload(t)
  \/ put_advance(t)
  \/ put_post_mutex(t)
  \/ put_post_read(t)
  \/ get_wait_read(t)
  \/ get_wait_mutex(t)
  \/ get_index(t)
  \/ get_load(t)
  \/ get_reload(t)
  \/ get_advance(t)
  \/ get_post_mutex(t)
  \/ get_post_write(t)

\* ------------------------------------------------- callers of the queue
\* A producer thread calls queue_put(queue, item) with its next item.
CallPut(t) ==
  /\ pc[t] \in {"producer", "put_ret"}
  /\ nput < MaxPuts
  /\ nput' = nput + 1
  /\ item' = [item EXCEPT ![t] = ItemOf(nput + 1)]
  /\ pc' = [pc EXCEPT ![t] = "put_wait_write"]
  /\ UNCHANGED <<index, qvars, written, wslot, fresh, taken, returned, nget, putsDone, getsDone, evars>>

\* A consumer thread calls queue_get(queue).
CallGet(t) ==
  /\ pc[t] \in {"consumer", "get_ret"}
  /\ nget < MaxGets
  /\ nget' = nget + 1
  /\ item' = [item EXCEPT ![t] = Uninit]
  /\ pc' = [pc EXCEPT ![t] = "get_wait_read"]
  /\ UNCHANGED <<index, qvars, written, wslot, fresh, taken, returned, nput, putsDone, getsDone, evars>>

\* A fresh queue of capacity n with np producer and nc consumer threads that
\* have not called it yet.
HarnessInit(n, np, nc) ==
  /\ QueueIs(queue_alloc(n))
  /\ pc = HarnessThreads(np, nc)
  /\ item = [t \in 1..(np + nc) |-> Uninit]
  /\ index = [t \in 1..(np + nc) |-> 0]
  /\ written = << >>
  /\ taken = << >>
  /\ wslot = << >>
  /\ fresh = {}
  /\ returned = [i \in Items |-> 0]
  /\ nput = 0
  /\ nget = 0
  /\ putsDone = 0
  /\ getsDone = 0
  /\ NoPlan

InitQ == \E n \in 1..MaxSize : HarnessInit(n, NumProducers, NumConsumers)

NextQ ==
  \/ \E t \in DOMAIN pc : CallPut(t)
  \/ \E t \in DOMAIN pc : CallGet(t)
  \/ \E t \in DOMAIN pc : put_wait_write(t)
  \/ \E t \in DOMAIN pc : put_wait_mutex(t)
  \/ \E t \in DOMAIN pc : put_index(t)
  \/ \E t \in DOMAIN pc : put_store(t)
  \/ \E t \in DOMAIN pc : put_reload(t)
  \/ \E t \in DOMAIN pc : put_advance(t)
  \/ \E t \in DOMAIN pc : put_post_mutex(t)
  \/ \E t \in DOMAIN pc : put_post_read(t)
  \/ \E t \in DOMAIN pc : get_wait_read(t)
  \/ \E t \in DOMAIN pc : get_wait_mutex(t)
  \/ \E t \in DOMAIN pc : get_index(t)
  \/ \E t \in DOMAIN pc : get_load(t)
  \/ \E t \in DOMAIN pc : get_reload(t)
  \/ \E t \in DOMAIN pc : get_advance(t)
  \/ \E t \in DOMAIN pc : get_post_mutex(t)
  \/ \E t \in DOMAIN pc : get_post_write(t)

SpecQ == InitQ /\ [][NextQ]_vars

\* Every thread that can take a step eventually takes one (the scheduler
\* runs every runnable thread); nothing is assumed about which waiter a
\* semaphore wakes.
InitQLive == \E n \in 1..MaxSize : HarnessInit(n, LiveProducers, LiveConsumers)

FairSpecQ ==
  /\ InitQLive
  /\ [][NextQ]_vars
  /\ \A t \in 1..(LiveProducers + LiveConsumers) :
        WF_vars(CallPut(t) \/ CallGet(t) \/ QueueStep(t))

\* ---------------------------------------------- callers of queue_alloc
\* The thread that calls queue_alloc.
Main == 0

\* The queue variables become the Queue q.
QueueBecomes(q) ==
  /\ size' = q.size
  /\ elements' = q.elements
  /\ read_index' = q.read_index
  /\ write_index' = q.write_index
  /\ mutex' = q.mutex
  /\ sem_read' = q.sem_read
  /\ sem_write' = q.sem_write

\* The process has been killed by a signal: every thread of it is gone.
Killed == [t \in DOMAIN pc |-> IF pc[t] \in {"absent", "unstarted"} THEN pc[t] ELSE "crashed"]

\* queue_alloc(n), lines 39-65, called by Main. When every allocation
\* succeeds the queue is returned and the threads start using it, for n >= 1
\* and, when malloc(0) returns a pointer, for n = 0 as well. When the malloc
\* of line 44 returns NULL (always for n < 0, whose byte count
\* n * sizeof(void*) wraps to a size no malloc grants; for n = 0 when the C
\* library answers malloc(0) with NULL; for n >= 1 when memory is exhausted)
\* or a sem_init fails, handle_error exits the process; queue->size was
\* assigned (line 42) before that. When the malloc of line 40 returns NULL,
\* the store of line 42 goes through a null pointer and the process is
\* killed before anything is assigned.
Alloc(n) ==
  /\ Main \in DOMAIN pc
  /\ pc[Main] = "alloc"
  /\ \/ /\ n >= 1
        /\ QueueBecomes(queue_alloc(n))
        /\ pc' = [t \in DOMAIN pc |-> IF t = Main THEN "allocated"
                     ELSE HarnessThreads(NumProducers, NumConsumers)[t]]
     \/ /\ n = 0
        /\ QueueBecomes(queue_alloc(n))
        /\ pc' = [t \in DOMAIN pc |-> IF t = Main THEN "allocated"
                     ELSE HarnessThreads(NumProducers, NumConsumers)[t]]
     \/ /\ n >= 1
        /\ size' = n
        /\ pc' = [pc EXCEPT ![Main] = "exited"]
        /\ UNCHANGED <<elements, read_index, write_index, mutex, sem_read, sem_write>>
     \/ /\ n = 0
        /\ size' = n
        /\ pc' = [pc EXCEPT ![Main] = "exited"]
        /\ UNCHANGED <<elements, read_index, write_index, mutex, sem_read, sem_write>>
     \/ /\ n < 0
        /\ size' = n
        /\ pc' = [pc EXCEPT ![Main] = "exited"]
        /\ UNCHANGED <<elements, read_index, write_index, mutex, sem_read, sem_write>>
     \/ /\ pc' = [pc EXCEPT ![Main] = "crashed"]
        /\ UNCHANGED <<size, elements, read_index, write_index, mutex, sem_read, sem_write>>
  /\ UNCHANGED <<item, index, hvars, evars>>

\* queue_free(queue), lines 77-80, called by Main once the queue is no
\* longer in use: no thread is inside queue_put or queue_get and none calls
\* them again. The buffer and the Queue are released.
queue_free ==
  /\ Main \in DOMAIN pc
  /\ pc[Main] = "allocated"
  /\ \A t \in DOMAIN pc \ {Main} : pc[t] \in {"producer", "consumer", "put_ret", "get_ret"}
  /\ QueueBecomes(NoQueue)
  /\ pc' = [t \in DOMAIN pc |-> IF t = Main THEN "freed" ELSE "joined"]
  /\ UNCHANGED <<item, index, hvars, evars>>

\* Main is about to call queue_alloc; the other threads have not started.
InitAlloc ==
  /\ QueueIs(NoQueue)
  /\ pc = [t \in 0..(NumProducers + NumConsumers) |->
             IF t = Main THEN "alloc" ELSE "unstarted"]
  /\ item = [t \in 0..(NumProducers + NumConsumers) |-> Uninit]
  /\ index = [t \in 0..(NumProducers + NumConsumers) |-> 0]
  /\ written = << >>
  /\ taken = << >>
  /\ wslot = << >>
  /\ fresh = {}
  /\ returned = [i \in Items |-> 0]
  /\ nput = 0
  /\ nget = 0
  /\ putsDone = 0
  /\ getsDone = 0
  /\ NoPlan

NextAlloc ==
  \/ \E n \in (0 - NegSizes)..MaxSize : Alloc(n)
  \/ queue_free
  \/ NextQ

SpecAlloc == InitAlloc /\ [][NextAlloc]_vars

\* ------------------------------------------------------ planner runs
InitPlan ==
  /\ content_length \in 0..MaxContentLength
  /\ threads \in 0..MaxThreads
  /\ max_chunk_size = 0
  /\ num_tasks = 0
  /\ tasks = << >>
  /\ ppc = "start"
  /\ NoDownload
  /\ QueueIs(NoQueue)
  /\ pc = << >>
  /\ item = << >>
  /\ index = << >>
  /\ written = << >>
  /\ taken = << >>
  /\ wslot = << >>
  /\ fresh = {}
  /\ returned = [i \in Items |-> 0]
  /\ nput = 0
  /\ nget = 0
  /\ putsDone = 0
  /\ getsDone = 0

NextPlan ==
  \/ get_num_tasks
  \/ get_num_tasks_div0
  \/ get_num_tasks_exit
  \/ BuildPlan

SpecPlan == InitPlan /\ [][NextPlan]_vars

\* ------------------------------------------------------ the download
\* The orchestrator thread and the worker threads of a download.
Orchestrator == 0
Workers == 1..threads

\* The queue item that tells a worker to stop; a Task travels as its
\* position 1..num_tasks in the plan.
Sentinel == 0

\* The byte of the resource at offset o, as the fetch collaborator returns it.
ByteAt(o) == o + 1

\* The offsets of Task k: [offset, offset + length).
RangeOf(k) == {o \in 0..(content_length - 1) :
                 tasks[k].offset <= o /\ o < tasks[k].offset + tasks[k].length}

\* The capacities the orchestrator asks queue_alloc for: the task count or
\* less, which for a plan without tasks is 0.
QueueCapacities == IF num_tasks = 0 THEN {0} ELSE 1..Min(MaxSize, num_tasks)

\* Planning is done: allocate the assembly buffer and the queue (of a
\* capacity up to the task count) and start the workers.
StartDownload ==
  /\ dl_state = "Planning"
  /\ ppc = "done"
  /\ pc[Orchestrator] = "plan"
  /\ \E cap \in QueueCapacities :
        LET q == queue_alloc(cap) IN
          /\ size' = q.size
          /\ elements' = q.elements
          /\ read_index' = q.read_index
          /\ write_index' = q.write_index
          /\ mutex' = q.mutex
          /\ sem_read' = q.sem_read
          /\ sem_write' = q.sem_write
  /\ buffer' = [o \in 0..(content_length - 1) |-> Uninit]
  /\ nwrites' = [o \in 0..(content_length - 1) |-> 0]
  /\ delivered' = [k \in 1..num_tasks |-> 0]
  /\ results' = [k \in 1..num_tasks |-> << >>]
  /\ fetched' = [w \in Workers |-> "none"]
  /\ pc' = [t \in DOMAIN pc |-> IF t = Orchestrator THEN "enqueue"
                                 ELSE IF t \in Workers THEN "loop" ELSE "absent"]
  /\ dl_state' = "Dispatching"
  /\ UNCHANGED <<item, index, hvars, pvars, completed, failed, enq, joined, result>>

\* The orchestrator's queue_alloc fails. The malloc of line 44 or a sem_init
\* reports an error and handle_error (queue.c lines 45-63) exits the
\* process, queue->size being assigned already (line 42); or the malloc of
\* line 40 returns NULL and the store of line 42 kills the process.
AllocFails ==
  /\ dl_state = "Planning"
  /\ ppc = "done"
  /\ pc[Orchestrator] = "plan"
  /\ \/ /\ \E cap \in QueueCapacities : size' = cap
        /\ pc' = [pc EXCEPT ![Orchestrator] = "exited"]
     \/ /\ size' = size
        /\ pc' = Killed
  /\ UNCHANGED <<elements, read_index, write_index, mutex, sem_read, sem_write>>
  /\ UNCHANGED <<item, index, hvars, evars>>

\* The orchestrator hands the next item to queue_put: the Tasks in
\* ascending offset order, then one sentinel per worker.
Enqueue ==
  /\ dl_state = "Dispatching"
  /\ pc[Orchestrator] \in {"enqueue", "put_ret"}
  /\ enq < num_tasks + threads
  /\ item' = [item EXCEPT ![Orchestrator] = IF enq < num_tasks THEN enq + 1 ELSE Sentinel]
  /\ enq' = enq + 1
  /\ nput' = nput + 1
  /\ pc' = [pc EXCEPT ![Orchestrator] = "put_wait_write"]
  /\ UNCHANGED <<index, qvars, written, wslot, fresh, taken, returned, nget, putsDone, getsDone, pvars,
                 dl_state, buffer, nwrites, delivered, fetched, completed,
                 failed, results, joined, result>>

\* Everything is enqueued: the orchestrator starts waiting for the workers.
FinishDispatch ==
  /\ dl_state = "Dispatching"
  /\ pc[Orchestrator] \in {"enqueue", "put_ret"}
  /\ enq = num_tasks + threads
  /\ pc' = [pc EXCEPT ![Orchestrator] = "join"]
  /\ dl_state' = "Waiting"
  /\ UNCHANGED <<qvars, item, index, hvars, pvars, buffer, nwrites, delivered,
                 fetched, completed, failed, results, enq, joined, result>>

\* The orchestrator joins the next worker, which has terminated.
Join ==
  /\ dl_state = "Waiting"
  /\ pc[Orchestrator] = "join"
  /\ joined < threads
  /\ pc[joined + 1] = "done"
  /\ joined' = joined + 1
  /\ UNCHANGED <<qvars, tvars, hvars, pvars, dl_state, buffer, nwrites,
                 delivered, fetched, completed, failed, results, enq, result>>

\* Variant: a failed download goes back to dispatching.
Inspect_retry ==
  /\ dl_state = "Waiting"
  /\ pc[Orchestrator] = "join"
  /\ joined = threads
  /\ result' = IF failed THEN "none" ELSE "buffer"
  /\ dl_state' = IF failed THEN "Dispatching" ELSE "Assembled"
  /\ pc' = [pc EXCEPT ![Orchestrator] = "done"]
  /\ UNCHANGED <<qvars, item, index, hvars, pvars, buffer, nwrites, delivered,
                 fetched, completed, failed, results, enq, joined>>

\* All workers are joined: any Err fails the download with PartialFailure
\* and no buffer; otherwise the buffer is returned if its length is
\* content_length (else AssemblyError).
Inspect ==
  /\ dl_state = "Waiting"
  /\ pc[Orchestrator] = "join"
  /\ joined = threads
  /\ result' = IF failed THEN "PartialFailure"
               ELSE IF Cardinality(DOMAIN buffer) # content_length THEN "AssemblyError"
               ELSE "buffer"
  /\ dl_state' = IF result' = "buffer" THEN "Assembled" ELSE "Failed"
  /\ pc' = [pc EXCEPT ![Orchestrator] = "done"]
  /\ UNCHANGED <<qvars, item, index, hvars, pvars, buffer, nwrites, delivered,
                 fetched, completed, failed, results, enq, joined>>

\* A started worker enters its loop and calls queue_get.
WorkerGet(w) ==
  /\ w \in Workers
  /\ pc[w] = "loop"
  /\ nget' = nget + 1
  /\ item' = [item EXCEPT ![w] = Uninit]
  /\ pc' = [pc EXCEPT ![w] = "get_wait_read"]
  /\ UNCHANGED <<index, qvars, written, wslot, fresh, taken, returned, nput, putsDone, getsDone, evars>>

\* queue_get returned the sentinel: the worker leaves its loop and ends.
WorkerStop(w) ==
  /\ w \in Workers
  /\ pc[w] = "get_ret"
  /\ item[w] = Sentinel
  /\ pc' = [pc EXCEPT ![w] = "done"]
  /\ UNCHANGED <<qvars, item, index, hvars, evars>>

\* queue_get returned a Task: the worker holds it and calls the fetch
\* collaborator, which returns the bytes of the Task's range or fails.
WorkerFetch(w) ==
  /\ w \in Workers
  /\ pc[w] = "get_ret"
  /\ item[w] \in 1..num_tasks
  /\ delivered' = [delivered EXCEPT ![item[w]] = @ + 1]
  /\ \E outcome \in {"Ok", "Err"} :
        /\ fetched' = [fetched EXCEPT ![w] = outcome]
        /\ pc' = [pc EXCEPT ![w] = IF outcome = "Ok" THEN "write" ELSE "report"]
  /\ UNCHANGED <<qvars, item, index, hvars, pvars, dl_state, buffer, nwrites,
                 completed, failed, results, enq, joined, result>>

\* The worker copies the fetched bytes into the buffer at the Task's offset.
WorkerWrite(w) ==
  /\ w \in Workers
  /\ pc[w] = "write"
  /\ buffer' = [o \in DOMAIN buffer |->
                  IF o \in RangeOf(item[w]) THEN ByteAt(o) ELSE buffer[o]]
  /\ nwrites' = [o \in DOMAIN nwrites |->
                   IF o \in RangeOf(item[w]) THEN nwrites[o] + 1 ELSE nwrites[o]]
  /\ pc' = [pc EXCEPT ![w] = "report"]
  /\ UNCHANGED <<qvars, item, index, hvars, pvars, dl_state, delivered, fetched, completed,
                 failed, results, enq, joined, result>>

\* Variant: the report overwrites the failure record with its own status.
WorkerReport_overwrite(w) ==
  /\ w \in Workers
  /\ pc[w] = "report"
  /\ results' = [results EXCEPT ![item[w]] = Append(@, fetched[w])]
  /\ completed' = completed + 1
  /\ failed' = (fetched[w] = "Err")
  /\ fetched' = [fetched EXCEPT ![w] = "none"]
  /\ nget' = nget + 1
  /\ item' = [item EXCEPT ![w] = Uninit]
  /\ pc' = [pc EXCEPT ![w] = "get_wait_read"]
  /\ UNCHANGED <<index, qvars, written, wslot, fresh, taken, returned, nput, putsDone, getsDone, pvars,
                 dl_state, buffer, nwrites, delivered, enq, joined, result>>

\* Variant: the report does not record a failed fetch.
WorkerReport_dropErr(w) ==
  /\ w \in Workers
  /\ pc[w] = "report"
  /\ results' = [results EXCEPT ![item[w]] = Append(@, fetched[w])]
  /\ completed' = completed + 1
  /\ fetched' = [fetched EXCEPT ![w] = "none"]
  /\ nget' = nget + 1
  /\ item' = [item EXCEPT ![w] = Uninit]
  /\ pc' = [pc EXCEPT ![w] = "get_wait_read"]
  /\ UNCHANGED <<index, qvars, written, wslot, fresh, taken, returned, nput, putsDone, getsDone, pvars,
                 dl_state, buffer, nwrites, delivered, failed, enq, joined, result>>

\* The worker records the ChunkResult and increments the completion
\* counter in one atomic update, then loops: it calls queue_get again.
WorkerReport(w) ==
  /\ w \in Workers
  /\ pc[w] = "report"
  /\ results' = [results EXCEPT ![item[w]] = Append(@, fetched[w])]
  /\ completed' = completed + 1
  /\ failed' = (failed \/ fetched[w] = "Err")
  /\ fetched' = [fetched EXCEPT ![w] = "none"]
  /\ nget' = nget + 1
  /\ item' = [item EXCEPT ![w] = Uninit]
  /\ pc' = [pc EXCEPT ![w] = "get_wait_read"]
  /\ UNCHANGED <<index, qvars, written, wslot, fresh, taken, returned, nput, putsDone, getsDone, pvars,
                 dl_state, buffer, nwrites, delivered, enq, joined, result>>

WorkerStep(w) ==
  \/ WorkerGet(w)
  \/ WorkerStop(w)
  \/ WorkerFetch(w)
  \/ WorkerWrite(w)
  \/ WorkerReport(w)

OrchestratorStep ==
  \/ get_num_tasks
  \/ BuildPlan
  \/ StartDownload
  \/ Enqueue
  \/ FinishDispatch
  \/ Join
  \/ Inspect

\* A download of len bytes by n workers, before planning.
DownloadInit(len, n) ==
  /\ content_length = len
  /\ threads = n
  /\ max_chunk_size = 0
  /\ num_tasks = 0
  /\ tasks = << >>
  /\ ppc = "start"
  /\ NoDownload
  /\ QueueIs(NoQueue)
  /\ pc = [t \in 0..DlMaxWorkers |-> IF t = Orchestrator THEN "plan"
                                     ELSE IF t \in 1..n THEN "unstarted" ELSE "absent"]
  /\ item = [t \in 0..DlMaxWorkers |-> Uninit]
  /\ index = [t \in 0..DlMaxWorkers |-> 0]
  /\ written = << >>
  /\ taken = << >>
  /\ wslot = << >>
  /\ fresh = {}
  /\ returned = [i \in Uninit..DlMaxWorkers |-> 0]
  /\ nput = 0
  /\ nget = 0
  /\ putsDone = 0
  /\ getsDone = 0

InitDL == \E len \in 1..DlMaxLength : \E n \in 1..DlMaxWorkers : DownloadInit(len, n)

NextDL ==
  \/ get_num_tasks
  \/ BuildPlan
  \/ StartDownload
  \/ Enqueue
  \/ FinishDispatch
  \/ Join
  \/ Inspect
  \/ \E t \in DOMAIN pc : WorkerGet(t)
  \/ \E t \in DOMAIN pc : WorkerStop(t)
  \/ \E t \in DOMAIN pc : WorkerFetch(t)
  \/ \E t \in DOMAIN pc : WorkerWrite(t)
  \/ \E t \in DOMAIN pc : WorkerReport(t)
  \/ \E t \in DOMAIN pc : put_wait_write(t)
  \/ \E t \in DOMAIN pc : put_wait_mutex(t)
  \/ \E t \in DOMAIN pc : put_index(t)
  \/ \E t \in DOMAIN pc : put_store(t)
  \/ \E t \in DOMAIN pc : put_reload(t)
  \/ \E t \in DOMAIN pc : put_advance(t)
  \/ \E t \in DOMAIN pc : put_post_mutex(t)
  \/ \E t \in DOMAIN pc : put_post_read(t)
  \/ \E t \in DOMAIN pc : get_wait_read(t)
  \/ \E t \in DOMAIN pc : get_wait_mutex(t)
  \/ \E t \in DOMAIN pc : get_index(t)
  \/ \E t \in DOMAIN pc : get_load(t)
  \/ \E t \in DOMAIN pc : get_reload(t)
  \/ \E t \in DOMAIN pc : get_advance(t)
  \/ \E t \in DOMAIN pc : get_post_mutex(t)
  \/ \E t \in DOMAIN pc : get_post_write(t)

SpecDL == InitDL /\ [][NextDL]_vars

\* The scheduler runs every runnable thread, and every fetch returns (with
\* the bytes or with an error); nothing is assumed about which waiter a
\* semaphore wakes.
\* Progress is checked for one content length: no step of the orchestrator
\* or of a worker is guarded by a Task's range.
InitDLLive == \E n \in 1..DlMaxWorkers : DownloadInit(DlMaxLength, n)

FairSpecDL ==
  /\ InitDLLive
  /\ [][NextDL]_vars
  /\ WF_vars(OrchestratorStep \/ QueueStep(Orchestrator))
  /\ \A w \in 1..DlMaxWorkers : WF_vars(WorkerStep(w) \/ QueueStep(w))

\* A download whose planning or queue allocation may fail, started with any
\* worker count from 0.
InitStart == \E n \in 0..DlMaxWorkers : DownloadInit(DlMaxLength, n)

NextStart ==
  \/ get_num_tasks_exit
  \/ get_num_tasks_div0
  \/ AllocFails
  \/ NextDL

SpecStart == InitStart /\ [][NextStart]_vars

\* ------------------------------------------------ derived quantities
\* The slots holding an item that no get has loaded since it was stored.
UnreadSlots == {i \in DOMAIN elements : i \in fresh}

\* Items currently stored in the circular buffer: the slots a store of line
\* 98 went to and no load of line 121 has read since.
Stored == Cardinality(UnreadSlots)

\* Value v occurs in the sequence s.
InSeq(v, s) == \E j \in 1..Len(s) : s[j] = v

\* The items of S waiting in the buffer: a store of line 98 put them into a
\* slot and no load of line 121 has read that slot since.
Unread(S) == {v \in S : \E i \in UnreadSlots : elements[i] = v}

\* The slot the j-th store of line 98 went to.
SlotOf(j) == wslot[j]

\* Positions of lines 98, 99, 121 and 122: before the slot is accessed, and
\* from there until the index is stored.
AtStore == {"put_index", "put_store"}
AtPutAdvance == {"put_reload", "put_advance"}
AtLoad == {"get_index", "get_load"}
AtGetAdvance == {"get_reload", "get_advance"}

PcsIn(S) == {t \in DOMAIN pc : pc[t] \in S}
Count(S) == Cardinality(PcsIn(S))

\* Positions between sem_wait(&mutex) and sem_post(&mutex).
CriticalPcs == AtStore \cup AtPutAdvance \cup AtLoad \cup AtGetAdvance
                 \cup {"put_post_mutex", "get_post_mutex"}

\* Positions inside queue_put and queue_get.
QueuePcs == CriticalPcs \cup {"put_wait_write", "put_wait_mutex", "put_post_read",
                             "get_wait_read", "get_wait_mutex", "get_post_write"}

InCall(t) == pc[t] \in QueuePcs

Blocked(t) ==
  \/ pc[t] = "put_wait_write" /\ ~SemCanWait(sem_write)
  \/ pc[t] = "get_wait_read" /\ ~SemCanWait(sem_read)
  \/ pc[t] \in {"put_wait_mutex", "get_wait_mutex"} /\ ~SemCanWait(mutex)

\* --------------------------------------------------------------- C1
\* Where item i is: in its buffer slot, in the local of a queue_get that has
\* loaded it, or already returned.
CopiesInBuffer(i) == Cardinality({s \in UnreadSlots : elements[s] = i})
CopiesInGet(i) ==
  Cardinality({t \in DOMAIN pc :
                 pc[t] \in AtGetAdvance \cup {"get_post_mutex", "get_post_write"} /\ item[t] = i})

\* C1: no loss, no duplication. Every item a put has stored is in exactly one
\* place (still in the buffer, held by the one get that loaded it, or
\* returned by exactly one get); no item is returned twice and nothing that
\* was never put is returned; once as many gets as puts have returned, every
\* item has been returned exactly once.
C1_NoLossNoDup ==
  /\ returned[Uninit] = 0
  /\ \A i \in Items \ {Uninit} : returned[i] <= 1
  /\ \A j \in 1..Len(written) :
        CopiesInBuffer(written[j]) + CopiesInGet(written[j]) + returned[written[j]] = 1
  /\ \A i \in Items \ {Uninit} :
        (\A j \in 1..Len(written) : written[j] # i) => returned[i] = 0
  /\ (putsDone = nput /\ getsDone = putsDone)
        => \A k \in 1..nput : returned[ItemOf(k)] = 1

\* More puts than the queue has slots have returned, and the same number of
\* gets: every item put was returned once.
C1_Witness ==
  /\ putsDone = MaxPuts
  /\ getsDone = MaxPuts
  /\ size < MaxPuts
  /\ \A k \in 1..MaxPuts : returned[ItemOf(k)] = 1

\* --------------------------------------------------------------- C2
\* The buffer never holds more than `size` items, and a put that is about to
\* store has a free slot.
CapacityOK ==
  /\ Stored <= size
  /\ \A t \in DOMAIN pc : pc[t] \in AtStore => Stored < size
  /\ Stored + Count({"put_wait_mutex"} \cup AtStore) <= size

\* Thread t is inside queue_put and not waiting on a queue without a free
\* slot.
PutCanProceed(t) ==
  /\ pc[t] \in {"put_wait_write", "put_wait_mutex", "put_post_mutex", "put_post_read"}
               \cup AtStore \cup AtPutAdvance
  /\ ~(pc[t] = "put_wait_write" /\ sem_write = 0)

\* C2: the number of stored items never exceeds the capacity; a put on a full
\* queue neither stores nor returns; and a put does not stay inside
\* queue_put once a get has released a slot (sem_write > 0): it returns.
C2_PutBlocksWhenFull ==
  /\ []CapacityOK
  /\ [](\A t \in 1..(LiveProducers + LiveConsumers) :
          (pc[t] = "put_wait_write" /\ Stored = size) => ~ENABLED put_wait_write(t))
  /\ \A t \in 1..(LiveProducers + LiveConsumers) : []<>(~PutCanProceed(t))

\* A put waits on a full queue after exactly `size` puts returned and no get
\* has started.
C2_Witness ==
  /\ putsDone = size
  /\ nget = 0
  /\ Stored = size
  /\ \E t \in DOMAIN pc : pc[t] = "put_wait_write" /\ Blocked(t)

\* --------------------------------------------------------------- C3
\* C3: a get loads only from a non-empty buffer, and the loads see the items
\* in the order the stores wrote them: the k-th item removed is the k-th
\* item inserted.
C3_Fifo ==
  /\ Len(taken) <= Len(written)
  /\ \A j \in 1..Len(taken) : j <= Len(written) /\ taken[j] = written[j]
  /\ \A t \in DOMAIN pc : pc[t] \in {"get_wait_mutex"} \cup AtLoad => Stored > 0
  /\ Stored >= Count({"get_wait_mutex"} \cup AtLoad)

\* The buffer has wrapped around and items stored out of call order were
\* still removed in store order.
C3_Witness ==
  /\ Len(taken) = MaxPuts
  /\ size < MaxPuts
  /\ \E j \in 1..(Len(written) - 1) : written[j] > written[j + 1]

\* --------------------------------------------------------------- C4
AllBlocked ==
  /\ \E t \in DOMAIN pc : InCall(t)
  /\ \A t \in DOMAIN pc : InCall(t) => Blocked(t)

PutPending == \E t \in DOMAIN pc : pc[t] \in {"put_wait_write", "put_wait_mutex"}
GetPending == \E t \in DOMAIN pc : pc[t] \in {"get_wait_read", "get_wait_mutex"}

\* The buffer has a slot without a waiting item; the buffer has a waiting
\* item.
NonFull == Stored < size
NonEmpty == Stored > 0

\* C4: whenever the mutex is taken its holder is at a position that cannot
\* block (it is never waiting for a slot permit), and the callers are never
\* all blocked while a put is pending on a non-full queue or a get is pending
\* on a non-empty queue.
C4_NoDeadlock ==
  /\ mutex = 0 => \E t \in DOMAIN pc : pc[t] \in CriticalPcs
  /\ \A t \in DOMAIN pc : pc[t] \in CriticalPcs => ~Blocked(t)
  /\ ~(AllBlocked /\ PutPending /\ NonFull)
  /\ ~(AllBlocked /\ GetPending /\ NonEmpty)

\* A put waits for a slot permit while another thread is inside the
\* critical section and a third waits for the mutex.
C4_Witness ==
  /\ \E t \in DOMAIN pc : pc[t] = "put_wait_write" /\ Blocked(t)
  /\ \E t \in DOMAIN pc : pc[t] \in CriticalPcs
  /\ \E t \in DOMAIN pc : pc[t] \in {"put_wait_mutex", "get_wait_mutex"}

\* --------------------------------------------------------------- C5
\* C5 as stated: in every reachable state sem_read is the number of stored
\* items and sem_write is the capacity minus that number.
C5_PermitsEqualStored ==
  /\ sem_read = Stored
  /\ sem_write = size - Stored

\* No call is between acquiring its slot permit and releasing the other one.
Quiescent == \A t \in DOMAIN pc : InCall(t) => pc[t] \in {"put_wait_write", "get_wait_read"}

\* C5 with the calls in progress counted: the permits account for the calls
\* that have taken one slot permit and not yet released the other; when no call
\* is between its two slot-permit operations they equal the stored count
\* and the capacity minus it.
C5_PermitsAccountForCalls ==
  /\ sem_read = Stored - Count({"get_wait_mutex"} \cup AtLoad)
                       - Count(AtPutAdvance \cup {"put_post_mutex", "put_post_read"})
  /\ sem_write = size - Stored - Count({"put_wait_mutex"} \cup AtStore)
                        - Count(AtGetAdvance \cup {"get_post_mutex", "get_post_write"})
  /\ Quiescent => C5_PermitsEqualStored

\* A put holds a write-slot permit and has not stored yet, after a get has
\* returned: the permits differ from the stored count by the calls in
\* progress.
C5_Witness ==
  /\ getsDone > 0
  /\ \E t \in DOMAIN pc : pc[t] \in AtStore
  /\ sem_write # size - Stored

\* --------------------------------------------------------------- C6
\* ceil(a / b) for b >= 1: the least c with c * b >= a.
CeilDiv(a, b) == CHOOSE c \in 0..a : c * b >= a /\ (c = 0 \/ (c - 1) * b < a)

RECURSIVE SumLengths(_, _)
SumLengths(ts, n) == IF n = 0 THEN 0 ELSE ts[n].length + SumLengths(ts, n - 1)

Planned == ppc = "done" /\ content_length >= 1 /\ threads >= 1

\* C6: the plan for content_length >= 1 and worker_count >= 1 partitions
\* [0, content_length): indices 0..n-1, first offset 0, every offset is the
\* previous offset plus the previous length and strictly larger, the lengths
\* sum to content_length, and the chunk size is ceil(content_length /
\* worker_count).
C6_PlanPartitions ==
  Planned =>
    /\ max_chunk_size = CeilDiv(content_length, threads)
    /\ Len(tasks) >= 1
    /\ tasks[1].offset = 0
    /\ \A i \in 1..Len(tasks) : tasks[i].sequence_index = i - 1
    /\ \A i \in 2..Len(tasks) :
          /\ tasks[i].offset = tasks[i - 1].offset + tasks[i - 1].length
          /\ tasks[i].offset > tasks[i - 1].offset
    /\ SumLengths(tasks, Len(tasks)) = content_length

\* --------------------------------------------------------------- C7
\* C7: for content_length >= 1 and worker_count >= 1 the plan has exactly
\* ceil(content_length / chunk_size) tasks and none of them is empty.
C7_TaskCountAndNonEmpty ==
  Planned =>
    /\ Len(tasks) = CeilDiv(content_length, max_chunk_size)
    /\ \A i \in 1..Len(tasks) : tasks[i].length >= 1

\* --------------------------------------------------------------- C8
IsWorker(w) == w \in Workers

\* Worker w holds a Task: from the return of queue_get to its report.
InFlight(w) == IsWorker(w) /\ pc[w] \in {"write", "report"}

AllTerminated ==
  /\ \A w \in Workers : pc[w] = "done"
  /\ joined = threads
  /\ dl_state \in {"Assembled", "Failed"}

\* C8: with all Tasks and then one sentinel per worker enqueued, every
\* worker terminates and the join returns, for every capacity and every
\* choice of failing fetches; a worker whose fetch failed reports and goes
\* on to its next dequeue.
C8_WorkersTerminate ==
  /\ <>AllTerminated
  /\ [][\A w \in Workers :
          (pc[w] = "report" /\ fetched[w] = "Err" /\ pc'[w] # pc[w])
            => pc'[w] = "get_wait_read"]_vars

\* A download with a capacity below the task count and a failed fetch has
\* had all its workers joined.
C8_Witness ==
  /\ AllTerminated
  /\ failed
  /\ size < num_tasks
  /\ completed = num_tasks

\* --------------------------------------------------------------- C9
\* A step that changes the buffer at offset o is the write of a worker that
\* holds the Task containing o, and stores the resource's byte.
WriteByHolder(o) ==
  (o \in DOMAIN buffer /\ o \in DOMAIN buffer' /\ nwrites'[o] # nwrites[o])
    => \E w \in Workers :
         /\ pc[w] = "write"
         /\ pc'[w] = "report"
         /\ o \in RangeOf(item[w])
         /\ delivered[item[w]] = 1
         /\ buffer'[o] = ByteAt(o)
         /\ nwrites'[o] = nwrites[o] + 1

AssembledExactlyOnce ==
  dl_state = "Assembled" =>
    /\ DOMAIN buffer = 0..(content_length - 1)
    /\ Cardinality(DOMAIN buffer) = content_length
    /\ buffer = [o \in 0..(content_length - 1) |-> ByteAt(o)]
    /\ \A o \in 0..(content_length - 1) : nwrites[o] = 1

\* C9: in the Assembled state every offset of [0, content_length) has been
\* written exactly once with the byte of the resource at that offset, every
\* write being made by the worker that holds the Task containing the
\* offset; the buffer is therefore the same whatever the interleaving, and
\* its length is content_length.
C9_AssembledExactlyOnce ==
  /\ []AssembledExactlyOnce
  /\ [][\A o \in 0..DlMaxLength : WriteByHolder(o)]_vars

\* A download of several bytes by several workers through a queue smaller
\* than the task count is Assembled.
C9_Witness ==
  /\ dl_state = "Assembled"
  /\ content_length > 1
  /\ threads > 1
  /\ size < num_tasks
  /\ \A o \in 0..(content_length - 1) : nwrites[o] = 1

\* -------------------------------------------------------------- C10
\* C10: no Task is delivered to more than one worker, no offset is written
\* more than once (so by no second worker), and the ranges two workers hold
\* in flight at the same time are disjoint.
C10_ExclusiveDelivery ==
  /\ \A k \in DOMAIN delivered : delivered[k] <= 1
  /\ \A o \in DOMAIN nwrites : nwrites[o] <= 1
  /\ \A w1, w2 \in DOMAIN pc :
        (w1 # w2 /\ InFlight(w1) /\ InFlight(w2))
          => /\ item[w1] # item[w2]
             /\ RangeOf(item[w1]) \cap RangeOf(item[w2]) = {}

\* Two different workers hold different Tasks with non-empty ranges in
\* flight at the same time.
C10_Witness ==
  \E w1, w2 \in DOMAIN pc :
    /\ w1 # w2
    /\ InFlight(w1)
    /\ InFlight(w2)
    /\ RangeOf(item[w1]) # {}
    /\ RangeOf(item[w2]) # {}

\* -------------------------------------------------------------- C11
Terminal == dl_state \in {"Assembled", "Failed"}

\* Some Task's fetch failed: a ChunkResult with status Err was reported.
SomeErr == \E k \in DOMAIN results : \E i \in 1..Len(results[k]) : results[k][i] = "Err"

\* Every ChunkResult that was reported is Ok.
AllOk == \A k \in DOMAIN results : \A i \in 1..Len(results[k]) : results[k][i] = "Ok"

\* C11: a download in which a fetch failed ends in Failed with
\* PartialFailure and returns no buffer; the buffer is returned only in
\* Assembled and only when every ChunkResult is Ok; nothing is returned
\* before the download has ended.
C11_FailureFailsDownload ==
  /\ (Terminal /\ SomeErr) => (dl_state = "Failed" /\ result = "PartialFailure")
  /\ result = "buffer" => (dl_state = "Assembled" /\ AllOk)
  /\ dl_state = "Assembled" => result = "buffer"
  /\ ~Terminal => result = "none"

\* One of several fetches failed after another worker wrote its bytes, and
\* the download ended in Failed with PartialFailure.
C11_Witness ==
  /\ dl_state = "Failed"
  /\ result = "PartialFailure"
  /\ num_tasks > 1
  /\ \E k \in 1..num_tasks : results[k] = <<"Err">>
  /\ \E k \in 1..num_tasks : results[k] = <<"Ok">>
  /\ \E o \in DOMAIN nwrites : nwrites[o] = 1

\* -------------------------------------------------------------- C12
\* Tasks in the queue: stored by a queue_put and not yet loaded by a
\* queue_get, the slot still holding them.
TasksInQueue == Cardinality(Unread(1..num_tasks))

\* Tasks dequeued and not yet completed: a worker has loaded the Task from
\* the queue and has not yet reported its ChunkResult.
TasksDequeued ==
  Cardinality({w \in DOMAIN pc :
                 /\ IsWorker(w)
                 /\ item[w] \in 1..num_tasks
                 /\ pc[w] \in AtGetAdvance \cup {"get_post_mutex", "get_post_write",
                                                  "get_ret", "write", "report"}})

\* Tasks not yet enqueued: not yet handed to queue_put, or in the hands of
\* a queue_put that has not stored it yet.
TasksNotEnqueued ==
  (num_tasks - Min(enq, num_tasks))
  + (IF /\ Orchestrator \in DOMAIN pc
        /\ pc[Orchestrator] \in {"put_wait_write", "put_wait_mutex"} \cup AtStore
        /\ item[Orchestrator] \in 1..num_tasks
     THEN 1 ELSE 0)

\* C12 as stated: queue occupancy, Tasks dequeued but not completed and
\* Tasks not yet enqueued add up to the task count at all times.
C12_TaskConservation ==
  TasksInQueue + TasksDequeued + TasksNotEnqueued = num_tasks

\* C12 with the completed Tasks counted: the three counts and the completion
\* counter add up to the task count, and each Task is in exactly one of the
\* four places.
C12_TaskConservationWithCompleted ==
  /\ TasksInQueue + TasksDequeued + TasksNotEnqueued + completed = num_tasks
  /\ \A k \in DOMAIN results : Len(results[k]) <= 1
  /\ completed <= num_tasks

\* One Task is completed while another is still held by a worker.
C12_Witness ==
  /\ completed = 1
  /\ TasksDequeued = 1
  /\ TasksInQueue = 0
  /\ TasksNotEnqueued = 0
  /\ dl_state = "Waiting"

\* -------------------------------------------------------------- C13
\* queue_alloc has been called and is over.
AllocOver == Main \in DOMAIN pc /\ pc[Main] \in {"allocated", "exited", "InvalidCapacity"}

\* C13: queue_alloc called with a capacity below 1 fails with
\* InvalidCapacity and leaves no queue a thread could use; called with a
\* capacity of 1 or more it returns the queue.
C13_AllocRejectsBadCapacity ==
  AllocOver =>
    /\ size < 1 => /\ pc[Main] = "InvalidCapacity"
                   /\ \A t \in DOMAIN pc \ {Main} : pc[t] = "unstarted"
    /\ size >= 1 => pc[Main] = "allocated"

\* -------------------------------------------------------------- C14
\* get_num_tasks is over.
PlanOver == ppc \in {"planned", "done", "crashed", "exited", "InvalidInput"}

\* C14: planning with content_length = 0 or with worker_count = 0 fails
\* with InvalidInput and produces no tasks and no chunk size.
C14_PlanRejectsZero ==
  (PlanOver /\ (content_length = 0 \/ threads = 0)) =>
    /\ ppc = "InvalidInput"
    /\ num_tasks = 0
    /\ max_chunk_size = 0
    /\ tasks = << >>

\* -------------------------------------------------------------- C16
\* Planning or queue allocation has failed for this download.
PlanFailed == ppc \in {"exited", "crashed"}
AllocFailed ==
  /\ Orchestrator \in DOMAIN pc
  /\ pc[Orchestrator] \in {"exited", "crashed"}
  /\ dl_state = "Planning"

\* No worker thread has been started.
NoWorkerStarted == \A w \in DOMAIN pc \ {Orchestrator} : pc[w] \in {"unstarted", "absent"}

\* The failure has come back to the caller of the download as an error.
ErrorReturned == result \in {"InvalidInput", "InvalidCapacity", "PlanError", "AllocError"}

\* When planning or queue allocation fails no worker thread has been
\* started and nothing has been put into or taken from a queue.
FailsBeforeWorkers ==
  (PlanFailed \/ AllocFailed) =>
    /\ NoWorkerStarted
    /\ dl_state = "Planning"
    /\ nput = 0
    /\ nget = 0

\* C16: when queue allocation or planning fails, the caller of the download
\* gets the error back, and no worker thread has been started.
C16_FailFastReturnsError ==
  (PlanFailed \/ AllocFailed) => (ErrorReturned /\ NoWorkerStarted)

\* -------------------------------------------------------------- C15
\* How many entries of the sequence q are the sentinel.
RECURSIVE SentinelsIn(_)
SentinelsIn(q) == IF q = << >> THEN 0
                  ELSE (IF Head(q) = Sentinel THEN 1 ELSE 0) + SentinelsIn(Tail(q))

\* Worker w has been handed the sentinel by queue_get.
GotSentinel(w) ==
  IsWorker(w) /\ item[w] = Sentinel /\ pc[w] \in {"get_ret", "done"}

AllWorkersDone == dl_state # "Planning" /\ \A w \in DOMAIN pc : IsWorker(w) => pc[w] = "done"

\* C15: never more than worker_count sentinels are enqueued, and exactly
\* worker_count once dispatch is over; every sentinel a queue_get returned
\* went to a different worker, which stops and makes no further dequeue;
\* when all workers have terminated the queue is empty and task_count +
\* worker_count dequeues were started and have returned.
C15_OneSentinelPerWorker ==
  /\ SentinelsIn(written) <= threads
  /\ dl_state \in {"Waiting", "Assembled", "Failed"} => SentinelsIn(written) = threads
  /\ dl_state # "Planning" =>
       /\ returned[Sentinel] = Cardinality({w \in DOMAIN pc : GotSentinel(w)})
       /\ \A w \in DOMAIN pc : (IsWorker(w) /\ pc[w] = "done") => item[w] = Sentinel
  /\ AllWorkersDone =>
       /\ Stored = 0
       /\ sem_read = 0
       /\ returned[Sentinel] = threads
       /\ nget = num_tasks + threads
       /\ getsDone = num_tasks + threads

\* Several workers have each taken their sentinel from a queue smaller than
\* the number of items that went through it.
C15_Witness ==
  /\ AllWorkersDone
  /\ threads > 1
  /\ size < num_tasks + threads
  /\ returned[Sentinel] = threads
  /\ getsDone = num_tasks + threads

\* -------------------------------------------------------------- C17
\* The transitions of the state machine of one download.
DlTransitions ==
  {<<"Planning", "Dispatching">>, <<"Dispatching", "Waiting">>,
   <<"Waiting", "Assembled">>, <<"Waiting", "Failed">>}

\* C17: the download is always in one of its five states; every change of
\* state is Planning -> Dispatching, Dispatching -> Waiting, Waiting ->
\* Assembled or Waiting -> Failed; and in Assembled and in Failed nothing
\* changes any more.
C17_ForwardOnly ==
  /\ [](dl_state \in {"Planning", "Dispatching", "Waiting", "Assembled", "Failed"})
  /\ [][/\ dl_state' # dl_state => <<dl_state, dl_state'>> \in DlTransitions
        /\ Terminal => UNCHANGED vars]_vars

\* A download has gone through all its states and ended in Failed after
\* every Task completed.
C17_Witness ==
  /\ dl_state = "Failed"
  /\ enq = num_tasks + threads
  /\ joined = threads
  /\ completed = num_tasks
  /\ pc[Orchestrator] = "done"

\* -------------------------------------------------------------- C18
\* The ChunkResults reported for Tasks 1..k.
RECURSIVE ResultsUpTo(_)
ResultsUpTo(k) == IF k = 0 THEN 0 ELSE Len(results[k]) + ResultsUpTo(k - 1)

\* Workers that are between the fetch of a Task and its report.
Reporting == {w \in DOMAIN pc : IsWorker(w) /\ pc[w] \in {"write", "report"}}

\* C18: no Task has more than one ChunkResult; the completion counter is the
\* number of ChunkResults reported, whatever the interleaving of the
\* reports; a Task that was delivered has its one ChunkResult or is held by
\* the worker about to report it; the failure record is set exactly when
\* some reported ChunkResult is Err; and once all workers are joined every
\* Task has exactly one ChunkResult and the counter equals the task count.
C18_CompletionCounter ==
  dl_state # "Planning" =>
    /\ \A k \in 1..num_tasks : Len(results[k]) <= 1
    /\ completed = ResultsUpTo(num_tasks)
    /\ \A k \in 1..num_tasks :
         delivered[k] = Len(results[k])
                        + Cardinality({w \in Reporting : item[w] = k})
    /\ failed <=> SomeErr
    /\ joined = threads =>
         /\ completed = num_tasks
         /\ \A k \in 1..num_tasks : Len(results[k]) = 1

\* All workers are joined after one Task reported Err and another Ok.
C18_Witness ==
  /\ joined = threads
  /\ threads > 1
  /\ completed = num_tasks
  /\ failed
  /\ results[1] = <<"Err">>
  /\ results[num_tasks] = <<"Ok">>
  /\ num_tasks > 1

\* -------------------------------------------------------------- C19
\* Threads between sem_wait(&queue->mutex) and sem_post(&queue->mutex).
InCritical == PcsIn(CriticalPcs)

\* Items the indices account for: a put counts from its update of
\* write_index (line 99), a get until its update of read_index (line 122).
Occupancy == Stored - Count(AtPutAdvance) + Count(AtGetAdvance)

\* C19: for a queue of capacity size >= 1, both indices are in 0..size-1;
\* at most one thread is inside the critical section, and exactly then the
\* mutex is taken; (write_index - read_index) mod size is the number of
\* stored items mod size, an item counting from the index update of its put
\* to the index update of its get, which is the number of items in the
\* slots whenever no thread is inside the critical section; and a put
\* stores only into a slot that holds no unread item, so that every unread
\* item is still in its slot.
C19_IndicesAndMutex ==
  size >= 1 =>
    /\ read_index \in 0..(size - 1)
    /\ write_index \in 0..(size - 1)
    /\ mutex \in {0, 1}
    /\ Cardinality(InCritical) <= 1
    /\ mutex = 1 - Cardinality(InCritical)
    /\ (write_index - read_index) % size = Occupancy % size
    /\ Occupancy \in 0..size
    /\ InCritical = {} => (write_index - read_index) % size = Stored % size
    /\ \A t \in DOMAIN pc : pc[t] = "put_store" => index[t] \notin UnreadSlots
    /\ \A j \in 1..Len(written) :
          ~InSeq(written[j], taken) => elements[SlotOf(j)] = written[j]

\* Both indices have wrapped around a queue of more than one slot, and a
\* put is about to store into slot 0, whose earlier item a get has read.
C19_Witness ==
  /\ size > 1
  /\ Len(taken) >= size
  /\ read_index = 0
  /\ write_index = 0
  /\ elements[0] # Uninit
  /\ \E t \in DOMAIN pc : pc[t] = "put_store" /\ index[t] = 0

\* -------------------------------------------------------------- C20
\* Worker w has loaded the sentinel from the queue (line 121) in its
\* current or last queue_get.
SentinelTaken(w) ==
  /\ IsWorker(w)
  /\ item[w] = Sentinel
  /\ pc[w] \in AtGetAdvance \cup {"get_post_mutex", "get_post_write", "get_ret", "done"}

\* Task k has been dequeued by a worker: a worker's queue_get has loaded it
\* and is returning it, or it was delivered.
TaskDequeued(k) ==
  /\ \E j \in 1..Len(taken) : taken[j] = k
  /\ \/ delivered[k] = 1
     \/ \E w \in DOMAIN pc :
          /\ IsWorker(w)
          /\ item[w] = k
          /\ pc[w] \in AtGetAdvance \cup {"get_post_mutex", "get_post_write", "get_ret"}

\* C20: the items are stored in the order Task 1..task_count and then the
\* sentinels; and in every state in which a worker has dequeued a sentinel
\* or has terminated, every Task has been dequeued by some worker, none is
\* in the queue and none is still to be enqueued.
C20_TasksBeforeSentinels ==
  /\ \A j \in 1..Len(written) :
        written[j] = (IF j <= num_tasks THEN j ELSE Sentinel)
  /\ (\E w \in DOMAIN pc : SentinelTaken(w)) =>
        /\ \A k \in 1..num_tasks : TaskDequeued(k)
        /\ TasksInQueue = 0
        /\ TasksNotEnqueued = 0
        /\ enq > num_tasks

\* A worker has terminated on its sentinel while another worker still holds
\* a Task, with a queue smaller than the task count.
C20_Witness ==
  /\ \E w \in DOMAIN pc : IsWorker(w) /\ pc[w] = "done"
  /\ \E w \in DOMAIN pc : InFlight(w)
  /\ size < num_tasks
  /\ completed < num_tasks

====
